---- MODULE Spec2Model ----
(***************************************************************************)
(* A model of nupic's DateEncoder (py/nupic/encoders/date.py): the         *)
(* constructor that lays out the sub-encoders, the scalar extraction from  *)
(* a datetime, and the encode / bucket-index entry points.                 *)
(*                                                                         *)
(* Representation of Python values                                         *)
(*   - a constructor argument is PyInt(v) or PyTuple(a, b);                *)
(*   - a radius is kept in half units (91.5 is 183, 1 is 2, 4 is 8);       *)
(*   - an extracted scalar is a fraction [num, den];                       *)
(*   - an input is the missing-data sentinel, a non-datetime object or a   *)
(*     datetime record (year, month, day, hour, minute, second,            *)
(*     microsecond).                                                       *)
(***************************************************************************)
EXTENDS Integers, Sequences, FiniteSets, TLC

VARIABLES self, ctorLog, input, output, result, err, op, subCalls

vars == <<self, ctorLog, input, output, result, err, op, subCalls>>

None == [kind |-> "None"]

PyInt(v) == [tag |-> "int", v |-> v]

PyTuple(a, b) == [tag |-> "tuple", a |-> a, b |-> b]

PyList(items) == [tag |-> "list", items |-> items]

PyStr(s) == [tag |-> "str", s |-> s]

Frac(num, den) == [num |-> num, den |-> den]

\* a local variable: v is evaluated once and F applied to its value
Local(v, F(_)) == CHOOSE r \in {F(x) : x \in {v}} : TRUE

\* x != 0 on a constructor argument
NotZero(x) == ~(x.tag = "int" /\ x.v = 0)

\* hasattr(x, "__getitem__")
HasGetItem(x) == x.tag = "tuple"

SENTINEL_VALUE_FOR_MISSING_DATA == [kind |-> "missing"]

IsDatetime(d) == d.kind = "datetime"

(***************************************************************************)
(* datetime arithmetic, as the datetime module computes it                 *)
(***************************************************************************)
IsLeap(y) == (y % 4 = 0) /\ ((y % 100 # 0) \/ (y % 400 = 0))

DaysInMonth(y, m) ==
  IF m = 2 THEN (IF IsLeap(y) THEN 29 ELSE 28)
  ELSE IF m \in {4, 6, 9, 11} THEN 30 ELSE 31

\* the number of days before the first of month m in a common year
DAYS_BEFORE_MONTH == <<0, 31, 59, 90, 120, 151, 181, 212, 243, 273, 304, 334>>

DaysBeforeMonth(y, m) ==
  DAYS_BEFORE_MONTH[m] + (IF m > 2 /\ IsLeap(y) THEN 1 ELSE 0)

DaysBeforeYear(y) ==
  LET p == y - 1 IN p * 365 + (p \div 4) - (p \div 100) + (p \div 400)

toordinal(d) == DaysBeforeYear(d.year) + DaysBeforeMonth(d.year, d.month) + d.day

SecondOfDay(d) == d.hour * 3600 + d.minute * 60 + d.second

datetime(year, month, day, hour, minute, second, microsecond) ==
  [kind |-> "datetime", year |-> year, month |-> month, day |-> day,
   hour |-> hour, minute |-> minute, second |-> second,
   microsecond |-> microsecond]

\* a > b on two datetimes
Later(a, b) ==
  Local(toordinal(a) - toordinal(b), LAMBDA days :
    Local(SecondOfDay(a) - SecondOfDay(b), LAMBDA secs :
      \/ days > 0
      \/ days = 0 /\ secs > 0
      \/ days = 0 /\ secs = 0 /\ a.microsecond > b.microsecond))

\* a - b : a normalized timedelta (0 <= seconds < 86400, 0 <= microseconds < 10^6)
Minus(a, b) ==
  LET us == a.microsecond - b.microsecond
      s  == SecondOfDay(a) - SecondOfDay(b) + (us \div 1000000)
      dd == toordinal(a) - toordinal(b) + (s \div 86400)
  IN [days |-> dd, seconds |-> s % 86400, microseconds |-> us % 1000000]

\* d + datetime.timedelta(days=1)
PlusOneDay(d) ==
  IF d.day < DaysInMonth(d.year, d.month) THEN [d EXCEPT !.day = d.day + 1]
  ELSE IF d.month < 12 THEN [d EXCEPT !.day = 1, !.month = d.month + 1]
  ELSE [d EXCEPT !.day = 1, !.month = 1, !.year = d.year + 1]

timetuple(d) ==
  [tm_year |-> d.year, tm_hour |-> d.hour, tm_min |-> d.minute,
   tm_yday |-> DaysBeforeMonth(d.year, d.month) + d.day,
   tm_wday |-> (toordinal(d) + 6) % 7]

(***************************************************************************)
(* ScalarEncoder, the scalar sub-encoder DateEncoder is built from         *)
(***************************************************************************)
Ceil(a, b) == (a + b - 1) \div b

\* ScalarEncoder(w, minval, maxval, radius, periodic, name); "ok" is FALSE
\* when the constructor rejects its arguments (w not a positive integer).
ScalarEncoder(w, minval, maxval, radius2, periodic, name) ==
  LET ok == w.tag = "int" /\ w.v > 0 /\ radius2 > 0
      wv == IF ok THEN w.v ELSE 1
      halfwidth == (wv - 1) \div 2
      padding == IF periodic THEN 0 ELSE halfwidth
      r2 == IF ok THEN radius2 ELSE 1
      n == IF periodic
             THEN Ceil(wv * (maxval - minval) * 2, r2)
             ELSE Ceil(wv * (maxval - minval) * 2, r2) + 1 + 2 * padding
  IN [ok |-> ok, w |-> w, minval |-> minval, maxval |-> maxval,
      radius2 |-> radius2, periodic |-> periodic, name |-> name,
      halfwidth |-> halfwidth, padding |-> padding, n |-> n]

ScalarGetWidth(enc) == enc.n

\* the first bit the encoding of scalar x switches on (may be negative for
\* a periodic encoder, whose run of bits wraps)
ScalarFirstOnBit(enc, x) ==
  LET rng == enc.maxval - enc.minval
      nInternal == enc.n - 2 * enc.padding
      shifted == x.num - enc.minval * x.den
      centerbin ==
        IF enc.periodic
          THEN ((shifted * nInternal) \div (x.den * rng)) + enc.padding
          ELSE ((4 * enc.w.v * shifted + x.den * enc.radius2)
                   \div (2 * x.den * enc.radius2)) + enc.padding
  IN centerbin - enc.halfwidth

ScalarGetBucketIndices(enc, x) ==
  LET minbin == ScalarFirstOnBit(enc, x)
      idx == IF enc.periodic
               THEN (IF minbin + enc.halfwidth < 0
                       THEN minbin + enc.halfwidth + enc.n
                       ELSE minbin + enc.halfwidth)
               ELSE minbin
  IN <<idx>>

\* bit j (1-based) of the pattern ScalarEncoder.encodeIntoArray writes for x:
\* the run minbin..minbin+2*halfwidth, wrapped around when periodic
RunBit(enc, minbin, j) ==
  LET maxbin == minbin + 2 * enc.halfwidth
      k == j - 1
  IN IF enc.periodic
       THEN (IF (minbin <= k /\ k <= maxbin)
                \/ (minbin <= k + enc.n /\ k + enc.n <= maxbin)
                \/ (minbin <= k - enc.n /\ k - enc.n <= maxbin)
               THEN 1 ELSE 0)
       ELSE (IF minbin <= k /\ k <= maxbin THEN 1 ELSE 0)

ScalarEncode(enc, x) ==
  Local(ScalarFirstOnBit(enc, x), LAMBDA minbin :
    [j \in 1..enc.n |-> RunBit(enc, minbin, j)])

(***************************************************************************)
(* DateEncoder.__init__                                                    *)
(***************************************************************************)
\* the object before any field is configured, with the constructor's log of
\* ScalarEncoder(...) calls and the exception raised so far
NewObject(name) ==
  [obj |-> [width |-> 0, description |-> <<>>, name |-> name, encoders |-> <<>>,
            seasonEncoder |-> None, dayOfWeekEncoder |-> None,
            weekendEncoder |-> None, customDaysEncoder |-> None,
            holidayEncoder |-> None, timeOfDayEncoder |-> None,
            customDays |-> <<>>],
   calls |-> <<>>, exc |-> "None"]

\* the mutation of Attach that takes the number of fields for the offset
AttachOffsetByCount(s, attr, name, enc) ==
  IF ~enc.ok
    THEN [s EXCEPT !.calls = Append(@, enc), !.exc = "ScalarEncoderError"]
    ELSE LET offset == Len(s.obj.encoders)
         IN [s EXCEPT !.calls = Append(@, enc),
                      !.obj = [@ EXCEPT ![attr] = enc,
                                        !.width = @ + ScalarGetWidth(enc),
                                        !.description = Append(@, <<name, offset>>),
                                        !.encoders = Append(@, <<name, enc, offset>>)]]

\* the mutation of Attach that grows the width by w instead of getWidth()
AttachWidthByW(s, attr, name, enc) ==
  IF ~enc.ok
    THEN [s EXCEPT !.calls = Append(@, enc), !.exc = "ScalarEncoderError"]
    ELSE LET offset == s.obj.width
         IN [s EXCEPT !.calls = Append(@, enc),
                      !.obj = [@ EXCEPT ![attr] = enc,
                                        !.width = @ + enc.w.v,
                                        !.description = Append(@, <<name, offset>>),
                                        !.encoders = Append(@, <<name, enc, offset>>)]]

\* self.xEncoder = ScalarEncoder(...); self.xOffset = self.width;
\* self.width += self.xEncoder.getWidth(); self.description.append(...);
\* self.encoders.append(...)
Attach(s, attr, name, enc) ==
  IF ~enc.ok
    THEN [s EXCEPT !.calls = Append(@, enc), !.exc = "ScalarEncoderError"]
    ELSE LET offset == s.obj.width
         IN [s EXCEPT !.calls = Append(@, enc),
                      !.obj = [@ EXCEPT ![attr] = enc,
                                        !.width = @ + ScalarGetWidth(enc),
                                        !.description = Append(@, <<name, offset>>),
                                        !.encoders = Append(@, <<name, enc, offset>>)]]

seasonBlock(s, season) ==
  IF s.exc # "None" \/ ~NotZero(season) THEN s
  ELSE LET w == IF HasGetItem(season) THEN season.a ELSE season
           radius2 == IF HasGetItem(season) THEN season.b ELSE 183
       IN Attach(s, "seasonEncoder", "season",
                 ScalarEncoder(w, 0, 366, radius2, TRUE, "season"))

dayOfWeekBlock(s, dayOfWeek) ==
  IF s.exc # "None" \/ ~NotZero(dayOfWeek) THEN s
  ELSE LET w == IF HasGetItem(dayOfWeek) THEN dayOfWeek.a ELSE dayOfWeek
           radius2 == IF HasGetItem(dayOfWeek) THEN dayOfWeek.b ELSE 2
       IN Attach(s, "dayOfWeekEncoder", "day of week",
                 ScalarEncoder(w, 0, 7, radius2, TRUE, "day of week"))

\* the mutation of weekendBlock that always takes the default radius
weekendBlockDefaultRadius(s, weekend) ==
  IF s.exc # "None" \/ ~NotZero(weekend) THEN s
  ELSE LET wk == IF ~HasGetItem(weekend) THEN PyTuple(weekend, 2) ELSE weekend
       IN Attach(s, "weekendEncoder", "weekend",
                 ScalarEncoder(wk.a, 0, 1, 2, FALSE, "weekend"))

weekendBlock(s, weekend) ==
  IF s.exc # "None" \/ ~NotZero(weekend) THEN s
  ELSE LET wk == IF ~HasGetItem(weekend) THEN PyTuple(weekend, 2) ELSE weekend
       IN Attach(s, "weekendEncoder", "weekend",
                 ScalarEncoder(wk.a, 0, 1, wk.b, FALSE, "weekend"))

\* day.lower() for the spellings the model draws day names from
lower(day) ==
  CASE day = "Monday" -> "monday"
    [] day = "FRI" -> "fri"
    [] day = "Sat" -> "sat"
    [] OTHER -> day

\* the mutation of ParseDay that numbers the week from Sunday
ParseDaySundayFirst(day) ==
  LET l == lower(day)
  IN CASE l \in {"sun", "sunday"} -> 0
       [] l \in {"mon", "monday"} -> 1
       [] l \in {"tue", "tuesday"} -> 2
       [] l \in {"wed", "wednesday"} -> 3
       [] l \in {"thu", "thursday"} -> 4
       [] l \in {"fri", "friday"} -> 5
       [] l \in {"sat", "saturday"} -> 6
       [] OTHER -> -1

\* the if / elif chain mapping a day name to a weekday index; -1 is the
\* final else (assert False)
ParseDay(day) ==
  LET l == lower(day)
  IN CASE l \in {"mon", "monday"} -> 0
       [] l \in {"tue", "tuesday"} -> 1
       [] l \in {"wed", "wednesday"} -> 2
       [] l \in {"thu", "thursday"} -> 3
       [] l \in {"fri", "friday"} -> 4
       [] l \in {"sat", "saturday"} -> 5
       [] l \in {"sun", "sunday"} -> 6
       [] OTHER -> -1

RECURSIVE JoinDays(_, _)
\* for day in customDays[1]: customDayEncoderName += str(day) + " "
JoinDays(days, i) ==
  IF i > Len(days) THEN "" ELSE days[i] \o " " \o JoinDays(days, i + 1)

customDaysBlock(s, customDays) ==
  IF s.exc # "None" \/ ~NotZero(customDays) THEN s
  ELSE IF ~HasGetItem(customDays) THEN [s EXCEPT !.exc = "TypeError"]
  ELSE IF customDays.b.tag \notin {"list", "str"}
    THEN [s EXCEPT !.exc = "AssertionError"]
  ELSE LET isList == customDays.b.tag = "list"
           customDayEncoderName ==
             IF isList THEN JoinDays(customDays.b.items, 1) ELSE customDays.b.s
           daysToParse == IF isList THEN customDays.b.items ELSE <<customDays.b.s>>
           parsed == [i \in 1..Len(daysToParse) |-> ParseDay(daysToParse[i])]
       IN IF \E i \in 1..Len(parsed) : parsed[i] = -1
            THEN [s EXCEPT !.exc = "AssertionError"]
            ELSE Attach([s EXCEPT !.obj.customDays = parsed],
                        "customDaysEncoder", "customdays",
                        ScalarEncoder(customDays.a, 0, 1, 2, FALSE,
                                      customDayEncoderName))

holidayBlock(s, holiday) ==
  IF s.exc # "None" \/ ~NotZero(holiday) THEN s
  ELSE Attach(s, "holidayEncoder", "holiday",
              ScalarEncoder(holiday, 0, 1, 2, FALSE, "holiday"))

timeOfDayBlock(s, timeOfDay) ==
  IF s.exc # "None" \/ ~NotZero(timeOfDay) THEN s
  ELSE LET w == IF HasGetItem(timeOfDay) THEN timeOfDay.a ELSE timeOfDay
           radius2 == IF HasGetItem(timeOfDay) THEN timeOfDay.b ELSE 8
       IN Attach(s, "timeOfDayEncoder", "time of day",
                 ScalarEncoder(w, 0, 24, radius2, TRUE, "time of day"))

\* DateEncoder(season, dayOfWeek, weekend, holiday, timeOfDay, customDays, name)
__init__(args) ==
  LET s0 == NewObject(args.name)
      s1 == seasonBlock(s0, args.season)
      s2 == dayOfWeekBlock(s1, args.dayOfWeek)
      s3 == weekendBlock(s2, args.weekend)
      s4 == customDaysBlock(s3, args.customDays)
      s5 == holidayBlock(s4, args.holiday)
  IN timeOfDayBlock(s5, args.timeOfDay)

Args(season, dayOfWeek, weekend, holiday, timeOfDay, customDays) ==
  [season |-> season, dayOfWeek |-> dayOfWeek, weekend |-> weekend,
   holiday |-> holiday, timeOfDay |-> timeOfDay, customDays |-> customDays,
   name |-> ""]


(***************************************************************************)
(* The read-side methods.  A method that can raise returns [exc, ret].      *)
(***************************************************************************)
getWidth(obj) == obj.width

getDescription(obj) == obj.description

\* _formFieldName(encoder) inside getScalarNames
formFieldName(parentFieldName, encoder) ==
  IF parentFieldName = "" THEN encoder.name
  ELSE parentFieldName \o "." \o encoder.name

\* [f(x)] if the attribute is not None, [] otherwise
IfPresent(encoder, x) == IF encoder # None THEN <<x>> ELSE <<>>

getScalarNames(obj, parentFieldName) ==
  IfPresent(obj.seasonEncoder, formFieldName(parentFieldName, obj.seasonEncoder))
  \o IfPresent(obj.dayOfWeekEncoder,
               formFieldName(parentFieldName, obj.dayOfWeekEncoder))
  \o IfPresent(obj.customDaysEncoder,
               formFieldName(parentFieldName, obj.customDaysEncoder))
  \o IfPresent(obj.weekendEncoder,
               formFieldName(parentFieldName, obj.weekendEncoder))
  \o IfPresent(obj.holidayEncoder,
               formFieldName(parentFieldName, obj.holidayEncoder))
  \o IfPresent(obj.timeOfDayEncoder,
               formFieldName(parentFieldName, obj.timeOfDayEncoder))

\* holidays = [(12, 25)]
holidays == <<[month |-> 12, day |-> 25]>>

SecondsPerDay == 86400

RECURSIVE HolidayLoopRampTwoDays(_, _, _, _)
\* the mutation of HolidayLoop whose ramp before the holiday starts a day early
HolidayLoopRampTwoDays(d, tm_year, i, val) ==
  IF i > Len(holidays) THEN val
  ELSE LET hdate == datetime(tm_year, holidays[i].month, holidays[i].day, 0, 0, 0, 0)
       IN IF Later(d, hdate)
            THEN Local(Minus(d, hdate), LAMBDA diff :
                   IF diff.days = 0 THEN Frac(1, 1)
                   ELSE IF diff.days = 1
                     THEN Frac(SecondsPerDay - diff.seconds, SecondsPerDay)
                   ELSE HolidayLoopRampTwoDays(d, tm_year, i + 1, val))
            ELSE Local(Minus(hdate, d), LAMBDA diff :
                   IF diff.days <= 1
                     THEN HolidayLoopRampTwoDays(d, tm_year, i + 1,
                            Frac(SecondsPerDay - diff.seconds, SecondsPerDay))
                     ELSE HolidayLoopRampTwoDays(d, tm_year, i + 1, val))

RECURSIVE HolidayLoop(_, _, _, _)
\* for h in holidays: ... ; val is the value carried into iteration i
HolidayLoop(d, tm_year, i, val) ==
  IF i > Len(holidays) THEN val
  ELSE LET hdate == datetime(tm_year, holidays[i].month, holidays[i].day, 0, 0, 0, 0)
       IN IF Later(d, hdate)
            THEN Local(Minus(d, hdate), LAMBDA diff :
                   IF diff.days = 0 THEN Frac(1, 1)
                   ELSE IF diff.days = 1
                     THEN Frac(SecondsPerDay - diff.seconds, SecondsPerDay)
                   ELSE HolidayLoop(d, tm_year, i + 1, val))
            ELSE Local(Minus(hdate, d), LAMBDA diff :
                   IF diff.days = 0
                     THEN HolidayLoop(d, tm_year, i + 1,
                            Frac(SecondsPerDay - diff.seconds, SecondsPerDay))
                     ELSE HolidayLoop(d, tm_year, i + 1, val))

\* timeOfDay = timetuple.tm_hour + float(timetuple.tm_min) / 60.0
TimeOfDay(tt) == Frac(60 * tt.tm_hour + tt.tm_min, 60)

seasonValue(tt) == Frac(tt.tm_yday - 1, 1)

dayOfWeekValue(tt) == Frac(tt.tm_wday, 1)

\* the mutation of weekendValue that compares with >= 18
weekendValueAtSix(tt) ==
  LET timeOfDay == TimeOfDay(tt)
  IN IF tt.tm_wday = 6 \/ tt.tm_wday = 5
        \/ (tt.tm_wday = 4 /\ timeOfDay.num >= 18 * timeOfDay.den)
       THEN Frac(1, 1) ELSE Frac(0, 1)

weekendValue(tt) ==
  LET timeOfDay == TimeOfDay(tt)
  IN IF tt.tm_wday = 6 \/ tt.tm_wday = 5
        \/ (tt.tm_wday = 4 /\ timeOfDay.num > 18 * timeOfDay.den)
       THEN Frac(1, 1) ELSE Frac(0, 1)

customDayValue(obj, tt) ==
  IF \E i \in 1..Len(obj.customDays) : obj.customDays[i] = tt.tm_wday
    THEN Frac(1, 1) ELSE Frac(0, 1)

\* the mutation of getEncodedValues that appends in getScalarNames' order
getEncodedValuesNamesOrder(obj, d) ==
  IF d = SENTINEL_VALUE_FOR_MISSING_DATA THEN [exc |-> "None", ret |-> <<None>>]
  ELSE IF ~IsDatetime(d) THEN [exc |-> "AssertionError", ret |-> None]
  ELSE Local(timetuple(d), LAMBDA tt :
         [exc |-> "None",
          ret |-> IfPresent(obj.seasonEncoder, seasonValue(tt))
                  \o IfPresent(obj.dayOfWeekEncoder, dayOfWeekValue(tt))
                  \o IfPresent(obj.customDaysEncoder, customDayValue(obj, tt))
                  \o IfPresent(obj.weekendEncoder, weekendValue(tt))
                  \o IfPresent(obj.holidayEncoder,
                               HolidayLoop(d, tt.tm_year, 1, Frac(0, 1)))
                  \o IfPresent(obj.timeOfDayEncoder, TimeOfDay(tt))])

getEncodedValues(obj, d) ==
  IF d = SENTINEL_VALUE_FOR_MISSING_DATA THEN [exc |-> "None", ret |-> <<None>>]
  ELSE IF ~IsDatetime(d) THEN [exc |-> "AssertionError", ret |-> None]
  ELSE Local(timetuple(d), LAMBDA tt :
         [exc |-> "None",
          ret |-> IfPresent(obj.seasonEncoder, seasonValue(tt))
                  \o IfPresent(obj.dayOfWeekEncoder, dayOfWeekValue(tt))
                  \o IfPresent(obj.weekendEncoder, weekendValue(tt))
                  \o IfPresent(obj.customDaysEncoder, customDayValue(obj, tt))
                  \o IfPresent(obj.holidayEncoder,
                               HolidayLoop(d, tt.tm_year, 1, Frac(0, 1)))
                  \o IfPresent(obj.timeOfDayEncoder, TimeOfDay(tt))])

\* numpy.array(self.getEncodedValues(input))
getScalars(obj, d) == getEncodedValues(obj, d)

RECURSIVE BucketLoop(_, _, _)
\* for i in xrange(len(self.encoders)):
\*   result.extend(encoder.getBucketIndices(scalars[i]))
BucketLoop(obj, scalars, i) ==
  IF i > Len(obj.encoders) THEN <<>>
  ELSE ScalarGetBucketIndices(obj.encoders[i][2], scalars[i])
       \o BucketLoop(obj, scalars, i + 1)

\* the sub-encoder invocations of one pass over self.encoders
SubEncoderCalls(obj, scalars) ==
  [i \in 1..Len(obj.encoders) |-> <<obj.encoders[i][1], scalars[i]>>]

getBucketIndices(obj, d) ==
  IF d = SENTINEL_VALUE_FOR_MISSING_DATA
    THEN [exc |-> "None", ret |-> [i \in 1..Len(obj.encoders) |-> None],
          calls |-> <<>>]
  ELSE IF ~IsDatetime(d)
    THEN [exc |-> "AssertionError", ret |-> None, calls |-> <<>>]
  ELSE Local(getScalars(obj, d).ret, LAMBDA scalars :
         [exc |-> "None", ret |-> BucketLoop(obj, scalars, 1),
          calls |-> SubEncoderCalls(obj, scalars)])

\* encoder.encodeIntoArray(x, out[offset:]) : the sub-encoder overwrites the
\* first n entries of the slice it is handed
WriteAt(out, offset, bits) ==
  SubSeq(out, 1, offset) \o bits \o SubSeq(out, offset + Len(bits) + 1, Len(out))

RECURSIVE EncodeLoop(_, _, _, _)
\* for i in xrange(len(self.encoders)):
\*   encoder.encodeIntoArray(scalars[i], output[offset:])
EncodeLoop(obj, scalars, i, out) ==
  IF i > Len(obj.encoders) THEN out
  ELSE Local(WriteAt(out, obj.encoders[i][3],
                     ScalarEncode(obj.encoders[i][2], scalars[i])),
             LAMBDA written : EncodeLoop(obj, scalars, i + 1, written))

\* the mutation of encodeIntoArray that leaves the buffer alone on missing data
encodeIntoArrayKeepsMissing(obj, d, out) ==
  IF d = SENTINEL_VALUE_FOR_MISSING_DATA
    THEN [exc |-> "None", out |-> out, calls |-> <<>>]
  ELSE IF ~IsDatetime(d)
    THEN [exc |-> "AssertionError", out |-> out, calls |-> <<>>]
  ELSE Local(getScalars(obj, d).ret, LAMBDA scalars :
         [exc |-> "None", out |-> EncodeLoop(obj, scalars, 1, out),
          calls |-> SubEncoderCalls(obj, scalars)])

\* the mutation of encodeIntoArray that clears the buffer before the type check
encodeIntoArrayClearsFirst(obj, d, out) ==
  IF d = SENTINEL_VALUE_FOR_MISSING_DATA
    THEN [exc |-> "None", out |-> [j \in 1..Len(out) |-> 0], calls |-> <<>>]
  ELSE IF ~IsDatetime(d)
    THEN [exc |-> "AssertionError", out |-> [j \in 1..Len(out) |-> 0],
          calls |-> <<>>]
  ELSE Local(getScalars(obj, d).ret, LAMBDA scalars :
         [exc |-> "None", out |-> EncodeLoop(obj, scalars, 1, out),
          calls |-> SubEncoderCalls(obj, scalars)])

encodeIntoArray(obj, d, out) ==
  IF d = SENTINEL_VALUE_FOR_MISSING_DATA
    THEN [exc |-> "None", out |-> [j \in 1..Len(out) |-> 0], calls |-> <<>>]
  ELSE IF ~IsDatetime(d)
    THEN [exc |-> "AssertionError", out |-> out, calls |-> <<>>]
  ELSE Local(getScalars(obj, d).ret, LAMBDA scalars :
         [exc |-> "None", out |-> EncodeLoop(obj, scalars, 1, out),
          calls |-> SubEncoderCalls(obj, scalars)])

(***************************************************************************)
(* Bounds and input domains                                                *)
(***************************************************************************)
\* number of consecutive years the holiday inputs are drawn from
NumYears == 3

\* number of consecutive weeks the weekend probes are drawn from
ProbeWeeks == 1

FirstYear == 2010

SweepDays == 300

OTHER_OBJECT == [kind |-> "str"]

\* per field: the bare width, a (width, radius) pair with a radius other
\* than the default, and a pair of width 0
Widths ==
  [season |-> PyInt(3), dayOfWeek |-> PyInt(1), weekend |-> PyInt(3),
   holiday |-> PyInt(5), timeOfDay |-> PyInt(5)]

Pairs ==
  [season |-> PyTuple(PyInt(3), 366), dayOfWeek |-> PyTuple(PyInt(1), 4),
   weekend |-> PyTuple(PyInt(3), 4), holiday |-> PyTuple(PyInt(5), 4),
   timeOfDay |-> PyTuple(PyInt(5), 16)]

ZeroPairs ==
  [season |-> PyTuple(PyInt(0), 183), dayOfWeek |-> PyTuple(PyInt(0), 2),
   weekend |-> PyTuple(PyInt(0), 2), holiday |-> PyTuple(PyInt(0), 2),
   timeOfDay |-> PyTuple(PyInt(0), 8)]

ScalarFields == {"season", "dayOfWeek", "weekend", "holiday", "timeOfDay"}

ConfigsOver(choices, customDaysChoices) ==
  {Args(a, b, c, d, e, f) :
     a \in {PyInt(0), choices.season}, b \in {PyInt(0), choices.dayOfWeek},
     c \in {PyInt(0), choices.weekend}, d \in {PyInt(0), choices.holiday},
     e \in {PyInt(0), choices.timeOfDay}, f \in customDaysChoices}

\* every subset of the fields enabled by a bare width; every subset enabled
\* by a pair (the holiday by its width as well); one field given a pair of
\* width 0 or a day name that is none; next to the other fields
Configs ==
  ConfigsOver(Widths, {PyInt(0), PyTuple(PyInt(3), PyList(<<"Sat", "sun", "FRI">>))})
  \cup ConfigsOver(Pairs, {PyInt(0), PyTuple(PyInt(3), PyStr("Monday"))})
  \cup ConfigsOver([Pairs EXCEPT !.holiday = Widths.holiday],
                   {PyTuple(PyInt(3), PyStr("Monday"))})
  \cup {[c EXCEPT ![f] = ZeroPairs[f]] :
          c \in ConfigsOver(Widths, {PyInt(0)}), f \in ScalarFields}
  \cup ConfigsOver(Widths, {PyTuple(PyInt(3), PyList(<<"sun", "funday">>))})

CoreInputs ==
  {SENTINEL_VALUE_FOR_MISSING_DATA, OTHER_OBJECT,
   datetime(2010, 11, 4, 14, 55, 0, 0),
   datetime(2010, 11, 5, 18, 1, 0, 0)}

Prefixes == {"", "date"}

\* e = DateEncoder(holiday=5)
HolidayConfigs ==
  {Args(PyInt(0), PyInt(0), PyInt(0), PyInt(5), PyInt(0), PyInt(0))}

HolidayDays ==
  {<<12, 23>>, <<12, 24>>, <<12, 25>>, <<12, 26>>, <<12, 27>>, <<12, 28>>,
   <<12, 31>>, <<1, 1>>, <<2, 28>>, <<6, 15>>}

ClockTimes ==
  {<<0, 0, 0, 0>>, <<0, 0, 0, 500000>>, <<0, 0, 1, 0>>, <<4, 55, 0, 0>>,
   <<8, 0, 0, 0>>, <<16, 0, 0, 0>>, <<23, 59, 59, 0>>, <<23, 59, 59, 999999>>}

HolidayInputs ==
  {datetime(y, md[1], md[2], t[1], t[2], t[3], t[4]) :
     y \in FirstYear..(FirstYear + NumYears - 1), md \in HolidayDays,
     t \in ClockTimes}

\* e = DateEncoder(customDays = (21, ["sat", "sun", "fri"])) and
\* e2 = DateEncoder(weekend = (21, 1))
customDaysTestArgs ==
  Args(PyInt(0), PyInt(0), PyInt(0), PyInt(0), PyInt(0),
       PyTuple(PyInt(21), PyList(<<"sat", "sun", "fri">>)))

weekendTestArgs ==
  Args(PyInt(0), PyInt(0), PyTuple(PyInt(21), 2), PyInt(0), PyInt(0), PyInt(0))

WeekendConfigs == {customDaysTestArgs, weekendTestArgs}

RECURSIVE PlusDays(_, _)
PlusDays(d, k) == IF k = 0 THEN d ELSE PlusDays(PlusOneDay(d), k - 1)

\* d = datetime.datetime(1988, 5, 29, 20, 00), then 300 times d + one day
SweepStart == datetime(1988, 5, 29, 20, 0, 0, 0)

ProbeTimes ==
  {<<0, 0, 0>>, <<17, 59, 59>>, <<18, 0, 0>>, <<18, 0, 59>>, <<18, 1, 0>>,
   <<20, 0, 0>>, <<23, 59, 59>>}

\* 2010-11-01 is a Monday
ProbeInputs ==
  {LET day == PlusDays(datetime(2010, 11, 1, 0, 0, 0, 0), k)
   IN [day EXCEPT !.hour = t[1], !.minute = t[2], !.second = t[3]] :
     k \in 0..(7 * ProbeWeeks - 1), t \in ProbeTimes}


(***************************************************************************)
(* The state machine: one encoder, its caller's output buffer, and the     *)
(* outcome of the last call                                                *)
(***************************************************************************)
zeros(n) == [j \in 1..n |-> 0]

InitOver(configs) ==
  \E args \in configs :
    LET s == __init__(args)
    IN /\ self = (IF s.exc = "None" THEN s.obj ELSE None)
       /\ ctorLog = [args |-> args, calls |-> s.calls]
       /\ err = s.exc
       /\ op = "__init__"
       /\ input = None
       /\ output = (IF s.exc = "None" THEN zeros(s.obj.width) ELSE <<>>)
       /\ result = None
       /\ subCalls = <<>>

Built == self # None

\* the caller overwrites its buffer between calls
FillOutput(b) ==
  /\ Built
  /\ output' = [j \in 1..Len(output) |-> b]
  /\ op' = "fill"
  /\ input' = None
  /\ result' = None
  /\ err' = "None"
  /\ subCalls' = <<>>
  /\ UNCHANGED <<self, ctorLog>>

GetWidth ==
  /\ Built
  /\ op' = "getWidth"
  /\ result' = getWidth(self)
  /\ input' = None
  /\ err' = "None"
  /\ subCalls' = <<>>
  /\ UNCHANGED <<self, ctorLog, output>>

GetDescription ==
  /\ Built
  /\ op' = "getDescription"
  /\ result' = getDescription(self)
  /\ input' = None
  /\ err' = "None"
  /\ subCalls' = <<>>
  /\ UNCHANGED <<self, ctorLog, output>>

GetScalarNames(parentFieldName) ==
  /\ Built
  /\ op' = "getScalarNames"
  /\ result' = getScalarNames(self, parentFieldName)
  /\ input' = PyStr(parentFieldName)
  /\ err' = "None"
  /\ subCalls' = <<>>
  /\ UNCHANGED <<self, ctorLog, output>>

GetEncodedValues(d) ==
  /\ Built
  /\ LET r == getEncodedValues(self, d)
     IN /\ op' = "getEncodedValues"
        /\ result' = r.ret
        /\ err' = r.exc
  /\ input' = d
  /\ subCalls' = <<>>
  /\ UNCHANGED <<self, ctorLog, output>>

GetScalars(d) ==
  /\ Built
  /\ LET r == getScalars(self, d)
     IN /\ op' = "getScalars"
        /\ result' = r.ret
        /\ err' = r.exc
  /\ input' = d
  /\ subCalls' = <<>>
  /\ UNCHANGED <<self, ctorLog, output>>

GetBucketIndices(d) ==
  /\ Built
  /\ LET r == getBucketIndices(self, d)
     IN /\ op' = "getBucketIndices"
        /\ result' = r.ret
        /\ err' = r.exc
        /\ subCalls' = r.calls
  /\ input' = d
  /\ UNCHANGED <<self, ctorLog, output>>

EncodeIntoArray(d) ==
  /\ Built
  /\ Len(output) = getWidth(self)
  /\ LET r == encodeIntoArray(self, d, output)
     IN /\ op' = "encodeIntoArray"
        /\ output' = r.out
        /\ err' = r.exc
        /\ subCalls' = r.calls
  /\ result' = None
  /\ input' = d
  /\ UNCHANGED <<self, ctorLog>>

\* one pass of the test's loop over consecutive days at 20:00:
\* d = d + datetime.timedelta(days=1); e.encode(d)
TestSweepStep ==
  /\ Built
  /\ op \in {"__init__", "testSweep"}
  /\ op = "testSweep" => toordinal(input) - toordinal(SweepStart) < SweepDays
  /\ LET d == IF op = "__init__" THEN SweepStart ELSE PlusOneDay(input)
         r == encodeIntoArray(self, d, zeros(getWidth(self)))
     IN /\ input' = d
        /\ output' = r.out
        /\ err' = r.exc
        /\ subCalls' = r.calls
  /\ op' = "testSweep"
  /\ result' = None
  /\ UNCHANGED <<self, ctorLog>>

\* the calls a client makes, getEncodedValues with inputs from `wide`, the
\* other methods with inputs from `narrow`
NextOver(wide, narrow) ==
  \/ \E b \in {0, 1} : FillOutput(b)
  \/ GetWidth
  \/ GetDescription
  \/ \E p \in Prefixes : GetScalarNames(p)
  \/ \E d \in wide : GetEncodedValues(d)
  \/ \E d \in narrow : GetScalars(d)
  \/ \E d \in narrow : GetBucketIndices(d)
  \/ \E d \in narrow : EncodeIntoArray(d)

Init == InitOver(Configs)

Next == NextOver(CoreInputs, CoreInputs)

Spec == Init /\ [][Next]_vars

InitHoliday == InitOver(HolidayConfigs)

NextHoliday == NextOver(HolidayInputs, CoreInputs)

SpecHoliday == InitHoliday /\ [][NextHoliday]_vars

InitWeekend == InitOver(WeekendConfigs)

NextWeekend == NextOver(ProbeInputs, CoreInputs) \/ TestSweepStep

SpecWeekend == InitWeekend /\ [][NextWeekend]_vars

(***************************************************************************)
(* Properties                                                              *)
(***************************************************************************)
\* the constructor argument a sub-field's name belongs to, and the order the
\* constructor goes through the fields
FieldOrder ==
  <<"season", "day of week", "weekend", "customdays", "holiday", "time of day">>

ArgOf(name) ==
  CASE name = "season" -> "season"
    [] name = "day of week" -> "dayOfWeek"
    [] name = "weekend" -> "weekend"
    [] name = "customdays" -> "customDays"
    [] name = "holiday" -> "holiday"
    [] name = "time of day" -> "timeOfDay"

Enabled(name) == NotZero(ctorLog.args[ArgOf(name)])

EnabledNames == SelectSeq(FieldOrder, Enabled)

RECURSIVE SumWidths(_, _)
SumWidths(encoders, i) ==
  IF i > Len(encoders) THEN 0
  ELSE ScalarGetWidth(encoders[i][2]) + SumWidths(encoders, i + 1)

\* C1: the offsets getDescription() lists start at 0, grow strictly, each by
\* exactly the width of the sub-encoder before it, and the entries are the
\* enabled fields in the order season, day of week, weekend, customdays,
\* holiday, time of day.
C1_LayoutOffsets ==
  Built =>
    LET desc == getDescription(self)
    IN /\ Len(desc) = Len(self.encoders)
       /\ [i \in 1..Len(desc) |-> desc[i][1]] = EnabledNames
       /\ Len(desc) > 0 => desc[1][2] = 0
       /\ \A i \in 1..(Len(desc) - 1) :
            /\ desc[i + 1][2] > desc[i][2]
            /\ desc[i + 1][2] = desc[i][2] + ScalarGetWidth(self.encoders[i][2])
       /\ op = "getDescription" => result = desc

C1_Witness ==
  /\ op = "getDescription"
  /\ Len(result) = 6
  /\ result[6][2] > result[5][2]

\* C2: getWidth() is the sum of the sub-encoders' widths, and no call made
\* after construction changes the width, the sub-field list, the offsets or
\* the custom day set.
C2_FixedLayout ==
  [][Built =>
       /\ self' = self
       /\ getWidth(self') = SumWidths(self'.encoders, 1)
       /\ op' = "getWidth" => result' = SumWidths(self.encoders, 1)]_vars

C2_Witness ==
  /\ op = "encodeIntoArray"
  /\ IsDatetime(input)
  /\ Len(self.encoders) = 6
  /\ getWidth(self) = SumWidths(self.encoders, 1)
  /\ self.customDays = <<5, 6, 4>>

\* C3: encodeIntoArray(MISSING, output) leaves every entry of the buffer 0,
\* over its whole length getWidth(), whatever it held before.
C3_ZeroOnMissing ==
  (op = "encodeIntoArray" /\ input = SENTINEL_VALUE_FOR_MISSING_DATA) =>
    /\ err = "None"
    /\ Len(output) = getWidth(self)
    /\ \A j \in 1..Len(output) : output[j] = 0

C3_Witness ==
  /\ op = "encodeIntoArray"
  /\ input = SENTINEL_VALUE_FOR_MISSING_DATA
  /\ Len(output) > 0
  /\ Len(self.encoders) > 1

\* the value of a fraction, compared without multiplying two large
\* denominators
FracIs(x, num, den) ==
  IF x.den = den THEN x.num = num ELSE x.num * den = num * x.den

\* the position of the holiday scalar among the extracted values
HolidayIndex == CHOOSE i \in 1..Len(self.encoders) : self.encoders[i][1] = "holiday"

\* C4: the holiday scalar is 1 all through December 25, 1 - s/86400 on
\* December 26 (s whole seconds since its midnight), 1 - s/86400 on December
\* 24 after midnight (s whole seconds left until December 25), 0 at any other
\* instant, and always within [0, 1].
C4_HolidayRamp ==
  (op = "getEncodedValues" /\ IsDatetime(input) /\ self.holidayEncoder # None) =>
    LET val == result[HolidayIndex]
        sod == input.hour * 3600 + input.minute * 60 + input.second
        left == SecondsPerDay - sod - (IF input.microsecond > 0 THEN 1 ELSE 0)
    IN /\ 0 <= val.num /\ val.num <= val.den /\ val.den > 0
       /\ IF input.month = 12 /\ input.day = 25 THEN FracIs(val, 1, 1)
          ELSE IF input.month = 12 /\ input.day = 26
            THEN FracIs(val, SecondsPerDay - sod, SecondsPerDay)
          ELSE IF input.month = 12 /\ input.day = 24
                  /\ (sod > 0 \/ input.microsecond > 0)
            THEN FracIs(val, SecondsPerDay - left, SecondsPerDay)
          ELSE val.num = 0

C4_Witness ==
  /\ op = "getEncodedValues"
  /\ IsDatetime(input)
  /\ input.month = 12 /\ input.day = 24 /\ input.year = 2012
  /\ input.hour = 0 /\ input.minute = 0 /\ input.second = 0
  /\ input.microsecond = 500000
  /\ result = <<Frac(1, SecondsPerDay)>>

\* C5: getScalarNames(prefix) lists the qualified names in the order of the
\* sub-field list, so that the i-th name labels the i-th sub-field.
C5_NamesFollowEncoders ==
  op = "getScalarNames" =>
    result = [i \in 1..Len(self.encoders) |->
                formFieldName(input.s, self.encoders[i][2])]

\* the ScalarEncoder(...) calls the constructor made for a field
CallsFor(name) ==
  {i \in 1..Len(ctorLog.calls) : ctorLog.calls[i].name = name}

PositionOf(name) == CHOOSE i \in 1..Len(FieldOrder) : FieldOrder[i] = name

ScalarFieldNames == {"season", "day of week", "weekend", "holiday", "time of day"}

\* the field at which the constructor raised: the one of the last
\* ScalarEncoder(...) call when that call failed, else the custom days
RaisedAt ==
  IF err = "ScalarEncoderError"
       /\ ctorLog.calls[Len(ctorLog.calls)].name \in ScalarFieldNames
    THEN PositionOf(ctorLog.calls[Len(ctorLog.calls)].name)
    ELSE PositionOf("customdays")

\* the constructor got as far as the field's block
Reached(name) == self # None \/ PositionOf(name) <= RaisedAt

DefaultRadius2 ==
  [season |-> 183, dayOfWeek |-> 2, weekend |-> 2, holiday |-> 2, timeOfDay |-> 8]

\* what the constructor hands to ScalarEncoder for a field whose argument is
\* unpacked when it is a pair (every field of `unpacked`) or passed whole
BuiltAsGiven(unpacked) ==
  \A name \in ScalarFieldNames :
    LET a == ctorLog.args[ArgOf(name)]
        pair == HasGetItem(a) /\ name \in unpacked
    IN /\ ~NotZero(a) => CallsFor(name) = {}
       /\ (NotZero(a) /\ Reached(name)) =>
            /\ Cardinality(CallsFor(name)) = 1
            /\ \A i \in CallsFor(name) :
                 /\ ctorLog.calls[i].w = (IF pair THEN a.a ELSE a)
                 /\ ctorLog.calls[i].radius2 =
                      (IF pair THEN a.b ELSE DefaultRadius2[ArgOf(name)])

\* C6 as stated: a (width, radius) pair gives any of the five fields that
\* width and that radius, a bare width the default radius, and only 0
\* disables a field.
C6_PairForEveryField == BuiltAsGiven(ScalarFieldNames)

\* C6 as amended: the pair is unpacked for season, day of week, weekend and
\* time of day; the holiday argument is passed whole as the width, with
\* radius 1.
C6_PairExceptHoliday == BuiltAsGiven(ScalarFieldNames \ {"holiday"})

C6_Witness ==
  /\ Built
  /\ HasGetItem(ctorLog.args.season)
  /\ HasGetItem(ctorLog.args.weekend)
  /\ self.weekendEncoder.radius2 = 4
  /\ self.holidayEncoder # None
  /\ op = "getWidth"

\* C7: encodeIntoArray or getBucketIndices on an input that is neither the
\* sentinel nor a datetime raises before any sub-encoder is invoked, returns
\* nothing, and leaves the caller's buffer and the encoder as they were.
C7_InvalidInputFails ==
  [][(/\ op' \in {"encodeIntoArray", "getBucketIndices"}
      /\ input' # SENTINEL_VALUE_FOR_MISSING_DATA
      /\ ~IsDatetime(input')) =>
       /\ err' = "AssertionError"
       /\ result' = None
       /\ subCalls' = <<>>
       /\ output' = output
       /\ self' = self]_vars

C7_Witness ==
  /\ op = "encodeIntoArray"
  /\ input = OTHER_OBJECT
  /\ err = "AssertionError"
  /\ Len(self.encoders) > 0
  /\ \A j \in 1..Len(output) : output[j] = 1

\* the scalar of the field a sub-encoder is named after
FieldScalar(obj, name, d) ==
  LET tt == timetuple(d)
  IN CASE name = "season" -> seasonValue(tt)
       [] name = "day of week" -> dayOfWeekValue(tt)
       [] name = "weekend" -> weekendValue(tt)
       [] name = "customdays" -> customDayValue(obj, tt)
       [] name = "holiday" -> HolidayLoop(d, tt.tm_year, 1, Frac(0, 1))
       [] name = "time of day" -> TimeOfDay(tt)

\* C8: getBucketIndices returns one entry per sub-field in construction
\* order: None for the sentinel, and for a datetime the bucket index that
\* sub-encoder i computes from the scalar of its own field.
C8_BucketPerField ==
  (op = "getBucketIndices" /\ err = "None") =>
    /\ Len(result) = Len(self.encoders)
    /\ input = SENTINEL_VALUE_FOR_MISSING_DATA =>
         \A i \in 1..Len(result) : result[i] = None
    /\ IsDatetime(input) =>
         /\ Len(subCalls) = Len(self.encoders)
         /\ \A i \in 1..Len(result) :
              /\ subCalls[i] = <<self.encoders[i][1],
                                 FieldScalar(self, self.encoders[i][1], input)>>
              /\ <<result[i]>> =
                   ScalarGetBucketIndices(self.encoders[i][2],
                     FieldScalar(self, self.encoders[i][1], input))

C8_Witness ==
  /\ op = "getBucketIndices"
  /\ IsDatetime(input)
  /\ self.seasonEncoder = None
  /\ self.weekendEncoder # None
  /\ self.customDaysEncoder # None
  /\ Len(result) >= 3
  /\ result[1] # result[2]

\* C9: the weekend scalar is 1 exactly on Saturday, on Sunday, and on Friday
\* when hour + minute/60 > 18 (seconds do not count); otherwise it is 0.
C9_WeekendScalar ==
  (op = "getEncodedValues" /\ IsDatetime(input) /\ self.weekendEncoder # None) =>
    LET wday == timetuple(input).tm_wday
        evening == input.hour > 18 \/ (input.hour = 18 /\ input.minute > 0)
    IN /\ (input.year = 2010 /\ input.month = 11) => wday = (input.day - 1) % 7
       /\ result = <<IF wday \in {5, 6} \/ (wday = 4 /\ evening)
                       THEN Frac(1, 1) ELSE Frac(0, 1)>>

C9_Witness ==
  /\ op = "getEncodedValues"
  /\ self.weekendEncoder # None
  /\ IsDatetime(input)
  /\ timetuple(input).tm_wday = 4
  /\ input.hour = 18 /\ input.minute = 0 /\ input.second = 59
  /\ result = <<Frac(0, 1)>>

customDaysTestEncoder == __init__(customDaysTestArgs).obj

weekendTestEncoder == __init__(weekendTestArgs).obj

\* of the test's two encoders, the one the state does not hold
OtherTestEncoder ==
  IF self = weekendTestEncoder THEN customDaysTestEncoder ELSE weekendTestEncoder

\* C10: the customDays (sat, sun, fri) encoder and the weekend encoder of the
\* same width write the same bits on every day of the sweep at 20:00; their
\* scalars are equal except on a Friday with hour + minute/60 <= 18, where
\* customDays gives 1 and weekend gives 0.
C10_WeekendEquivalence ==
  /\ op = "testSweep" =>
       /\ err = "None"
       /\ output = encodeIntoArray(OtherTestEncoder, input,
                                   zeros(getWidth(OtherTestEncoder))).out
  /\ (op = "getEncodedValues" /\ IsDatetime(input)) =>
       LET other == getEncodedValues(OtherTestEncoder, input).ret
           custom == IF self = customDaysTestEncoder THEN result[1] ELSE other[1]
           weekend == IF self = weekendTestEncoder THEN result[1] ELSE other[1]
           earlyFriday == /\ timetuple(input).tm_wday = 4
                          /\ 60 * input.hour + input.minute <= 60 * 18
       IN /\ (custom = weekend) <=> ~earlyFriday
          /\ earlyFriday => (custom = Frac(1, 1) /\ weekend = Frac(0, 1))

C10_Witness ==
  /\ op = "testSweep"
  /\ toordinal(input) - toordinal(SweepStart) = SweepDays
  /\ input.hour = 20
  /\ \E j \in 1..Len(output) : output[j] = 1
  /\ output = encodeIntoArray(OtherTestEncoder, input,
                              zeros(getWidth(OtherTestEncoder))).out


====
